---- MODULE Spec2Model ----
(***************************************************************************)
(* minibrew: the package graph (pkg / packageMap), the install ledger      *)
(* (_installJson, install.json), the invalidation walk                     *)
(* (Package._walkDepTree) and the install loop (Package.install) of        *)
(* src/minibrewlib.py, driven by main of src/minibrew.py; the fingerprints *)
(* (getKey of Source, BuildStep and Package) as the strings the code       *)
(* builds, and the fetch (Git.get, TarBall.get) statement by statement.    *)
(*                                                                         *)
(* A Package object is an index into the arena `nodes` (object identity);  *)
(* a fingerprint (Package.getKey) is an opaque string that the code only   *)
(* compares for equality.                                                  *)
(***************************************************************************)
EXTENDS Naturals, Sequences, FiniteSets, TLC

\* ------------------------------------------------------------------ bounds
\* Largest number of Package objects of a graph the install runs are explored on.
MaxNodes == 3
\* Largest number of pkg calls of one registration sequence.
MaxCalls == 3
\* Longest deps list of one pkg call of a registration sequence.
MaxDepNames == 2
\* Largest graph, and number of process starts, of a history that begins
\* with no install.json.
MaxHistoryNodes == 2
MaxHistoryRuns == 3
\* Largest number of Package objects of a graph built outside pkg.
MaxCycleNodes == 2
\* Deepest nesting of _walkDepTree calls the interpreter allows (a small
\* stand-in for sys.getrecursionlimit()); deeper than any walk of the graphs
\* explored that visits each Package once.
RecursionLimit == 8

AllNames == <<"a", "b", "c", "d", "e", "f">>
Keys == {"k1", "k2"}
\* Python's None: what _installJson.get(name, None) gives for a missing key.
None == "None"

NameSet(n) == {AllNames[i] : i \in 1..n}

VARIABLES
    nodes,            \* the Package objects ever constructed, by identity
    packageMap,       \* packageMap: name -> Package
    regErrors,        \* number of pkg calls that raised NameError
    installJson,      \* _installJson: the ledger in memory
    disk,             \* install.json: [state, data]
    pc,               \* position of the process
    target,           \* the Package install was called on (0: none)
    needToInstall,    \* install's needToInstall list
    alreadyInstalled, \* install's alreadyInstalled list
    visits,           \* Packages whose walk body ran, in order
    idx,              \* position of the install loop in needToInstall
    fetched,          \* Packages whose _get was invoked in this run, in order
    built,            \* Packages whose _buildAndInstall was invoked in this run
    finished,         \* Packages whose _get and _buildAndInstall both returned
    completed,        \* Packages whose ledger entry was written and saved
    failedPkg,        \* the Package whose _get or _buildAndInstall raised (0: none)
    ledger0,          \* _installJson when the run started
    runs,             \* process starts so far
    prev,             \* how the previous process ended
    rebuiltSince,     \* rebuiltSince[p]: Packages built since p was last built
    repoDir,          \* the directory repoPath of the Source.get call followed
    tmpDir,           \* the directory repoPath.tmp of that call
    getStep           \* position inside that Source.get call

vars == <<nodes, packageMap, regErrors, installJson, disk, pc, target,
          needToInstall, alreadyInstalled, visits, idx, fetched, built,
          finished, completed, failedPkg, ledger0, runs, prev, rebuiltSince,
          repoDir, tmpDir, getStep>>

graphVars == <<nodes, packageMap, regErrors>>
\* The install specifications take a fetch as one step and leave these alone.
fileVars == <<repoDir, tmpDir, getStep>>
runVars == <<target, needToInstall, alreadyInstalled, visits, idx, fetched,
             built, finished, completed, failedPkg, ledger0>>

\* ------------------------------------------------------------- helpers
Range(s) == {s[i] : i \in DOMAIN s}

NoDup(s) == \A i, j \in DOMAIN s : i # j => s[i] # s[j]

\* Position of the first occurrence of x in s (0: not in s).
IndexOf(s, x) == IF x \in Range(s) THEN CHOOSE i \in DOMAIN s : s[i] = x /\ \A j \in 1..(i-1) : s[j] # x ELSE 0

\* Duplicate-free lists over S.
RECURSIVE ListsOver(_)
ListsOver(S) ==
    {<<>>} \cup UNION {{<<x>> \o t : t \in ListsOver(S \ {x})} : x \in S}

\* All lists over S of length at most n, repetitions included.
RECURSIVE SeqsUpTo(_, _)
SeqsUpTo(S, n) ==
    IF n = 0 THEN {<<>>}
    ELSE {<<>>} \cup UNION {{<<x>> \o t : t \in SeqsUpTo(S, n - 1)} : x \in S}

\* ------------------------------------------------------- the ledger
\* _installJson.get(name, None)
LedgerGet(lj, name) == IF name \in DOMAIN lj THEN lj[name] ELSE None

\* Mutant of LedgerSet: the entry is never written.
LedgerSetDropped(lj, name, key) == lj

\* Mutant of LedgerSet: the ledger is replaced by the one entry.
LedgerSetReplaces(lj, name, key) == (name :> key)

\* _installJson[name] = key
LedgerSet(lj, name, key) == (name :> key) @@ lj

\* Every dict of fingerprints over the names N.
Ledgers(N) == UNION {[S -> Keys] : S \in SUBSET N}

\* What json.load gives for the file: the mapping it holds.
DiskAbsent == [state |-> "absent", data |-> <<>>]
DiskHolding(lj) == [state |-> "complete", data |-> lj]
DiskTruncated == [state |-> "truncated", data |-> <<>>]

\* --------------------------------------------------- the package graph
Package(name, key, dependencies) ==
    [name |-> name, key |-> key, dependencies |-> dependencies]

\* pkg raises NameError at the first dependency name not in packageMap.
PkgRaises(pm, deps) == \E i \in DOMAIN deps : deps[i] \notin DOMAIN pm

\* The dependencies list pkg builds: packageMap[depName] for each name, in order.
PkgDependencies(pm, deps) == [i \in DOMAIN deps |-> pm[deps[i]]]

\* Mutant of PkgCall: the package is registered before its dependencies are
\* looked up, with the dependencies that were found.
PkgCallRegistersFirst(g, name, key, deps) ==
    LET found == SelectSeq(deps, LAMBDA n : n \in DOMAIN g.packageMap)
    IN  [nodes |-> Append(g.nodes,
                     Package(name, key, PkgDependencies(g.packageMap, found))),
         packageMap |-> (name :> (Len(g.nodes) + 1)) @@ g.packageMap]

\* Mutant of PkgCall: the name is put in packageMap before the dependency
\* names are looked up, so a package can be given as its own dependency.
PkgCallResolvesAfter(g, name, key, deps) ==
    LET pm == (name :> (Len(g.nodes) + 1)) @@ g.packageMap
    IN  IF PkgRaises(pm, deps) THEN g
        ELSE [nodes |-> Append(g.nodes,
                          Package(name, key, PkgDependencies(pm, deps))),
              packageMap |-> pm]

\* pkg(name=, source=, buildStep=, deps=) on the graph g = [nodes, packageMap].
PkgCall(g, name, key, deps) ==
    IF PkgRaises(g.packageMap, deps) THEN g
    ELSE [nodes |-> Append(g.nodes,
                      Package(name, key, PkgDependencies(g.packageMap, deps))),
          packageMap |-> (name :> (Len(g.nodes) + 1)) @@ g.packageMap]

EmptyGraph == [nodes |-> <<>>, packageMap |-> <<>>]

\* The graphs that n pkg calls build from definitions that declare each name
\* once and list each dependency once (spec section 3), every dependency
\* declared before its dependents.  Names and fingerprints are opaque, so the
\* i-th declared package is named AllNames[i] and has fingerprint "k1".
RECURSIVE Declared(_)
Declared(n) ==
    IF n = 0 THEN {EmptyGraph}
    ELSE UNION {{PkgCall(g, AllNames[n], "k1", d) :
                    d \in ListsOver(DOMAIN g.packageMap)} : g \in Declared(n - 1)}

DeclaredUpTo(n) == UNION {Declared(k) : k \in 1..n}

\* ------------------------------------------------------------ the walk
\* Mutant of IsInstalled: any entry under the name counts, whatever its
\* fingerprint.
IsInstalledAnyKey(self) == nodes[self].name \in DOMAIN installJson

\* Package._isInstalled
IsInstalled(self) ==
    LedgerGet(installJson, nodes[self].name) = nodes[self].key

\* Mutant of Skips: only the package's own fingerprint is looked at.
SkipsOwnOnly(installed, depNeedsUpdating) == installed

\* The test of line 296: skip only when installed and no dependency needs updating.
Skips(installed, depNeedsUpdating) == installed /\ ~depNeedsUpdating

\* Mutant of NotSeen: no memoisation, every path walks the package again.
NotSeenEver(self, seen) == TRUE

\* Line 288: the walk body runs only for a Package not yet in seen.
NotSeen(self, seen) == self \notin DOMAIN seen

\* Lines 292-295: the walk of the dependency is evaluated first, then or-ed.
OrDep(walked, depNeedsUpdating) == walked \/ depNeedsUpdating

\* Mutant of Enter: the Package is not marked in seen before its
\* dependencies are walked.
EnterUnmarked(self, st) == [st EXCEPT !.visits = Append(@, self)]

\* Entering the body (line 289): seen[self] = False.
Enter(self, st) ==
    [st EXCEPT !.seen = (self :> FALSE) @@ @, !.visits = Append(@, self)]

\* Mutant of Classify: a package that needs installing is put at the front
\* of the build order.
ClassifyPrepend(self, st, depNeedsUpdating) ==
    IF IsInstalled(self) /\ ~depNeedsUpdating
    THEN [st EXCEPT !.alreadyInstalled = Append(@, self),
                    !.seen = (self :> FALSE) @@ @, !.ret = FALSE]
    ELSE [st EXCEPT !.needToInstall = <<self>> \o @,
                    !.seen = (self :> TRUE) @@ @, !.ret = TRUE]

\* Lines 296-301: classify self after its dependencies were walked.
Classify(self, st, depNeedsUpdating) ==
    IF Skips(IsInstalled(self), depNeedsUpdating)
    THEN [st EXCEPT !.alreadyInstalled = Append(@, self),
                    !.seen = (self :> FALSE) @@ @, !.ret = FALSE]
    ELSE [st EXCEPT !.needToInstall = Append(@, self),
                    !.seen = (self :> TRUE) @@ @, !.ret = TRUE]

RECURSIVE WalkDepTree(_, _)
RECURSIVE WalkDeps(_, _, _, _)
\* Package._walkDepTree(self, seen, alreadyInstalled, needToInstall); the
\* three arguments are fields of st, the return value is st.ret.
\* st.depth is the number of calls on the stack; a call beyond
\* RecursionLimit raises RecursionError (st.raised), which leaves every
\* caller.
WalkDepTree(self, st) ==
    IF st.raised THEN st
    ELSE IF st.depth >= RecursionLimit THEN [st EXCEPT !.raised = TRUE]
    ELSE IF NotSeen(self, st.seen)
    THEN LET r == WalkDeps(self, 1,
                           Enter(self, [st EXCEPT !.depth = @ + 1]), FALSE)
         IN  IF r.st.raised THEN r.st
             ELSE [Classify(self, r.st, r.depNeedsUpdating)
                      EXCEPT !.depth = st.depth]
    ELSE [st EXCEPT !.ret = st.seen[self]]

\* The for loop of lines 291-295, from the i-th dependency on.
WalkDeps(self, i, st, depNeedsUpdating) ==
    IF i > Len(nodes[self].dependencies)
    THEN [st |-> st, depNeedsUpdating |-> depNeedsUpdating]
    ELSE LET s == WalkDepTree(nodes[self].dependencies[i], st)
         IN  IF s.raised THEN [st |-> s, depNeedsUpdating |-> depNeedsUpdating]
             ELSE WalkDeps(self, i + 1, s, OrDep(s.ret, depNeedsUpdating))

\* install's call self._walkDepTree({}, alreadyInstalled, needToInstall).
WalkStart ==
    [seen |-> <<>>, alreadyInstalled |-> <<>>, needToInstall |-> <<>>,
     visits |-> <<>>, ret |-> FALSE, depth |-> 0, raised |-> FALSE]

Walk(self) == WalkDepTree(self, WalkStart)

\* Packages reachable from p through dependency edges, p included.
RECURSIVE ReachFrom(_, _)
ReachFrom(front, acc) ==
    IF front \subseteq acc THEN acc
    ELSE ReachFrom(UNION {Range(nodes[q].dependencies) : q \in front},
                   acc \cup front)

Reachable(p) == ReachFrom({p}, {})

\* The direct and transitive dependencies of p.
TransDeps(p) ==
    ReachFrom(Range(nodes[p].dependencies), {})

\* ------------------------------------------------------ the processes
NoRun == [outcome |-> "none", target |-> 0, needToInstall |-> <<>>,
          completed |-> <<>>, failedPkg |-> 0, edited |-> FALSE]

\* The file as json.load reads it at import (lines 18-22): the mapping it
\* holds, the empty dict when the file does not exist.
LoadInstallJson(d) == d.data

\* json.load raises on a file that does not hold a whole JSON document.
LoadRaises(d) == d.state = "truncated"

\* No Source.get call is followed step by step.
NoGet ==
    /\ repoDir = "absent"
    /\ tmpDir = "absent"
    /\ getStep = "none"

FreshRun ==
    /\ target = 0
    /\ needToInstall = <<>>
    /\ alreadyInstalled = <<>>
    /\ visits = <<>>
    /\ idx = 0
    /\ fetched = <<>>
    /\ built = <<>>
    /\ finished = <<>>
    /\ completed = <<>>
    /\ failedPkg = 0

\* A process that has imported minibrewlib (ledger loaded from install.json)
\* and minibrewpkgs (graph g declared) and is about to run main.
Started(g, lj, d) ==
    /\ nodes = g.nodes
    /\ packageMap = g.packageMap
    /\ regErrors = 0
    /\ installJson = lj
    /\ disk = d
    /\ pc = "main"
    /\ FreshRun
    /\ ledger0 = lj
    /\ runs = 1
    /\ prev = NoRun
    /\ rebuiltSince = [p \in DOMAIN g.nodes |-> {}]
    /\ NoGet

InitOn(n) ==
    \E g \in DeclaredUpTo(n), lj \in Ledgers(NameSet(n)) :
        \E d \in {DiskHolding(lj)} \cup (IF lj = <<>> THEN {DiskAbsent} ELSE {}) :
            Started(g, lj, d)

\* The diamond of spec section 8: d depends on b and c, both depend on a.
Diamonds ==
    LET abc == PkgCall(PkgCall(PkgCall(EmptyGraph, "a", "k1", <<>>),
                               "b", "k1", <<"a">>), "c", "k1", <<"a">>)
    IN  {PkgCall(abc, "d", "k1", ds) : ds \in {<<"b", "c">>, <<"c", "b">>}}

InitDiamond ==
    \E g \in Diamonds :
        \E lj \in Ledgers(DOMAIN g.packageMap) : Started(g, lj, DiskHolding(lj))

\* A process about to run main, on every declared graph of at most MaxNodes
\* packages and on the diamond, with any ledger left by earlier processes.
Init == InitOn(MaxNodes) \/ InitDiamond

\* The loop of install moves to the package at position i (or ends).
LoopAt(i, order) ==
    IF i > Len(order)
    THEN /\ pc' = "done"
         /\ idx' = i
         /\ fetched' = fetched
    ELSE /\ pc' = "get"
         /\ idx' = i
         /\ fetched' = Append(fetched, order[i])

\* main with command install and a registered target (minibrew.py 23-28),
\* then install up to the first pkg._get() (lines 305-314).
Install(name) ==
    /\ pc = "main"
    /\ name \in DOMAIN packageMap
    /\ LET w == Walk(packageMap[name])
       IN  /\ target' = packageMap[name]
           /\ needToInstall' = w.needToInstall
           /\ alreadyInstalled' = w.alreadyInstalled
           /\ visits' = w.visits
           /\ IF w.raised
              THEN /\ pc' = "recursionerror"
                   /\ UNCHANGED <<idx, fetched>>
              ELSE LoopAt(1, w.needToInstall)
    /\ UNCHANGED <<graphVars, installJson, disk, built, finished, completed,
                   failedPkg, ledger0, runs, prev, rebuiltSince, fileVars>>

\* Mutant of InstallUnknown: the ledger is saved on the way out.
InstallUnknownSaves(name) ==
    /\ pc = "main"
    /\ name \notin DOMAIN packageMap
    /\ pc' = "error"
    /\ disk' = DiskHolding(installJson)
    /\ UNCHANGED <<graphVars, installJson, runVars, runs, prev, rebuiltSince, fileVars>>

\* main with a target name that is not in packageMap (minibrew.py 25-26).
InstallUnknown(name) ==
    /\ pc = "main"
    /\ name \notin DOMAIN packageMap
    /\ pc' = "error"
    /\ UNCHANGED <<graphVars, installJson, disk, runVars, runs, prev,
                   rebuiltSince, fileVars>>

\* Mutant of Raise: the failure is noted and the loop goes on with the next
\* package.
RaiseAndContinue ==
    /\ failedPkg' = needToInstall[idx]
    /\ LoopAt(idx + 1, needToInstall)
    /\ UNCHANGED <<graphVars, installJson, disk, target, needToInstall,
                   alreadyInstalled, visits, built, finished, completed,
                   ledger0, runs, prev, rebuiltSince, fileVars>>

\* An exception leaves install and main: the process ends.
Raise ==
    /\ pc' = "failed"
    /\ failedPkg' = needToInstall[idx]
    /\ UNCHANGED <<graphVars, installJson, disk, target, needToInstall,
                   alreadyInstalled, visits, idx, fetched, built, finished,
                   completed, ledger0, runs, prev, rebuiltSince, fileVars>>

\* Mutant of GetReturns: the build is left out, the loop goes on to the
\* ledger write.
GetReturnsSkipsBuild ==
    /\ pc = "get"
    /\ pc' = "set"
    /\ finished' = Append(finished, needToInstall[idx])
    /\ UNCHANGED <<graphVars, installJson, disk, target, needToInstall,
                   alreadyInstalled, visits, idx, fetched, built, completed,
                   failedPkg, ledger0, runs, prev, rebuiltSince, fileVars>>

\* pkg._get() returns; pkg._buildAndInstall() is invoked (line 315).
GetReturns ==
    /\ pc = "get"
    /\ pc' = "build"
    /\ built' = Append(built, needToInstall[idx])
    /\ UNCHANGED <<graphVars, installJson, disk, target, needToInstall,
                   alreadyInstalled, visits, idx, fetched, finished, completed,
                   failedPkg, ledger0, runs, prev, rebuiltSince, fileVars>>

\* pkg._get() raises (git or urlopen fails, digest mismatch, bad archive).
GetRaises ==
    /\ pc = "get"
    /\ Raise

\* pkg._buildAndInstall() returns: the package is built into PKGS_PATH.
BuildReturns ==
    /\ pc = "build"
    /\ pc' = "set"
    /\ finished' = Append(finished, needToInstall[idx])
    /\ rebuiltSince' = [p \in DOMAIN rebuiltSince |->
                          IF p = needToInstall[idx] THEN {}
                          ELSE rebuiltSince[p] \cup {needToInstall[idx]}]
    /\ UNCHANGED <<graphVars, installJson, disk, target, needToInstall,
                   alreadyInstalled, visits, idx, fetched, built, completed,
                   failedPkg, ledger0, runs, prev, fileVars>>

\* pkg._buildAndInstall() raises (subprocess.run(check=True) fails).
BuildRaises ==
    /\ pc = "build"
    /\ Raise

\* Mutant of SetEntry: the entry is written and the loop goes on; the ledger
\* is not saved after each package.
SetEntryNoSave ==
    /\ pc = "set"
    /\ installJson' = LedgerSet(installJson, nodes[needToInstall[idx]].name,
                                nodes[needToInstall[idx]].key)
    /\ completed' = Append(completed, needToInstall[idx])
    /\ LoopAt(idx + 1, needToInstall)
    /\ UNCHANGED <<graphVars, disk, target, needToInstall, alreadyInstalled,
                   visits, built, finished, failedPkg, ledger0, runs, prev,
                   rebuiltSince, fileVars>>

\* Line 316: _installJson[pkg.name] = pkg.getKey()
SetEntry ==
    /\ pc = "set"
    /\ installJson' = LedgerSet(installJson, nodes[needToInstall[idx]].name,
                                nodes[needToInstall[idx]].key)
    /\ pc' = "save"
    /\ UNCHANGED <<graphVars, disk, runVars, runs, prev, rebuiltSince, fileVars>>

\* _saveInstallJson, line 27: open(INSTALL_JSON_PATH, 'w') truncates the file.
SaveOpen ==
    /\ pc = "save"
    /\ disk' = DiskTruncated
    /\ pc' = "dump"
    /\ UNCHANGED <<graphVars, installJson, runVars, runs, prev, rebuiltSince, fileVars>>

\* What the file holds once json.dump has written and the file is closed.
Dumped(lj) == DiskHolding(lj)

\* _saveInstallJson, line 28, and the step of the loop to the next package.
SaveDump ==
    /\ pc = "dump"
    /\ disk' = Dumped(installJson)
    /\ completed' = Append(completed, needToInstall[idx])
    /\ LoopAt(idx + 1, needToInstall)
    /\ UNCHANGED <<graphVars, installJson, target, needToInstall,
                   alreadyInstalled, visits, built, finished, failedPkg,
                   ledger0, runs, prev, rebuiltSince, fileVars>>

InRun == pc \in {"get", "build", "set", "save", "dump"}

\* The process is interrupted (killed, power loss) between two steps.
Crash ==
    /\ InRun
    /\ pc' = "crashed"
    /\ UNCHANGED <<graphVars, installJson, disk, runVars, runs, prev,
                   rebuiltSince, fileVars>>

Ended == pc \in {"done", "failed", "crashed", "error", "recursionerror"}

\* The next process start, the n-th at most: import minibrewlib reloads the
\* ledger (lines 18-22); edited tells whether minibrewpkgs.py was changed
\* since the previous process.
StartProcess(n, edited) ==
    /\ Ended
    /\ runs < n
    /\ runs' = runs + 1
    /\ prev' = [outcome |-> pc, target |-> target,
                needToInstall |-> needToInstall, completed |-> completed,
                failedPkg |-> failedPkg, edited |-> edited]
    /\ IF LoadRaises(disk)
       THEN /\ pc' = "loaderror"
            /\ UNCHANGED <<installJson, ledger0>>
       ELSE /\ pc' = "main"
            /\ installJson' = LoadInstallJson(disk)
            /\ ledger0' = LoadInstallJson(disk)
    /\ target' = 0
    /\ needToInstall' = <<>>
    /\ alreadyInstalled' = <<>>
    /\ visits' = <<>>
    /\ idx' = 0
    /\ fetched' = <<>>
    /\ built' = <<>>
    /\ finished' = <<>>
    /\ completed' = <<>>
    /\ failedPkg' = 0
    /\ UNCHANGED <<disk, rebuiltSince, fileVars>>

Next ==
    \/ \E name \in NameSet(MaxNodes + 1) : Install(name)
    \/ \E name \in NameSet(MaxNodes + 1) : InstallUnknown(name)
    \/ GetReturns
    \/ GetRaises
    \/ BuildReturns
    \/ BuildRaises
    \/ SetEntry
    \/ SaveOpen
    \/ SaveDump

Spec == Init /\ [][Next]_vars

\* ------------------------------------- histories from a fresh checkout
\* The first process of a checkout: no install.json, nothing installed.
InitFresh ==
    \E g \in DeclaredUpTo(MaxHistoryNodes) : Started(g, <<>>, DiskAbsent)

\* The next process start with the same minibrewpkgs.py: import minibrewpkgs
\* declares the same packages again.
RestartHistory ==
    /\ StartProcess(MaxHistoryRuns, FALSE)
    /\ UNCHANGED graphVars

\* The next process start after the definition of package p in
\* minibrewpkgs.py was edited (another commit, another configure flag): the
\* Package declared under that name has another fingerprint.
RestartEdited(p, key) ==
    /\ p \in DOMAIN nodes
    /\ key # nodes[p].key
    /\ StartProcess(MaxHistoryRuns, TRUE)
    /\ nodes' = [nodes EXCEPT ![p].key = key]
    /\ UNCHANGED <<packageMap, regErrors>>

NextHistory ==
    \/ \E name \in NameSet(MaxHistoryNodes) : Install(name)
    \/ \E name \in NameSet(MaxHistoryNodes) : InstallUnknown(name)
    \/ GetReturns
    \/ GetRaises
    \/ BuildReturns
    \/ BuildRaises
    \/ SetEntry
    \/ SaveOpen
    \/ SaveDump
    \/ Crash
    \/ \E p \in 1..MaxHistoryNodes, key \in Keys : RestartEdited(p, key)
    \/ RestartHistory

SpecHistory == InitFresh /\ [][NextHistory]_vars

\* ------------------------------------------------------- registration
\* The names the pkg calls of a registration sequence use.
RegNames == {"a", "b"}

\* import minibrewpkgs has begun: nothing is registered yet.
InitReg ==
    /\ nodes = <<>>
    /\ packageMap = <<>>
    /\ regErrors = 0
    /\ installJson = <<>>
    /\ disk = DiskAbsent
    /\ pc = "import"
    /\ FreshRun
    /\ ledger0 = <<>>
    /\ runs = 1
    /\ prev = NoRun
    /\ rebuiltSince = <<>>
    /\ NoGet

\* One call pkg(name=name, source=, buildStep=, deps=deps), returning or
\* raising NameError.
Pkg(name, key, deps) ==
    /\ pc = "import"
    /\ Len(nodes) + regErrors < MaxCalls
    /\ LET g == PkgCall([nodes |-> nodes, packageMap |-> packageMap],
                        name, key, deps)
       IN  /\ nodes' = g.nodes
           /\ packageMap' = g.packageMap
    /\ regErrors' = IF PkgRaises(packageMap, deps) THEN regErrors + 1
                    ELSE regErrors
    /\ UNCHANGED <<installJson, disk, pc, runVars, runs, prev, rebuiltSince, fileVars>>

NextReg ==
    \E name \in RegNames, deps \in SeqsUpTo(RegNames, MaxDepNames) :
        Pkg(name, "k1", deps)

SpecReg == InitReg /\ [][NextReg]_vars

\* ------------------------------------------ graphs built outside pkg
\* The graphs of n Package objects constructed directly (Package(...), then
\* dependencies assigned), each under its own name: any Package may depend on
\* any other and on itself, so the edges may hold cycles.
AnyGraphs(n) ==
    {[nodes |-> [i \in 1..n |-> Package(AllNames[i], "k1", d[i])],
      packageMap |-> [nm \in NameSet(n) |-> IndexOf(AllNames, nm)]] :
        d \in [1..n -> ListsOver(1..n)]}

InitCyclic ==
    \E n \in 1..MaxCycleNodes :
        \E g \in AnyGraphs(n) :
            \E lj \in Ledgers(NameSet(n)) : Started(g, lj, DiskHolding(lj))

\* The walk and the first step of the loop only.
NextCyclic == \E name \in NameSet(MaxCycleNodes) : Install(name)

SpecCyclic == InitCyclic /\ [][NextCyclic]_vars

\* ------------------------------------------------------- fingerprints
\* The descriptors of a package: a Source and a BuildStep, as records.
Git(repository, commit) ==
    [type |-> "Git", repository |-> repository, commit |-> commit]

TarBall(url, sha256) == [type |-> "TarBall", url |-> url, sha256 |-> sha256]

ConfigureAndMake(additionalConfigureFlags) ==
    [type |-> "ConfigureAndMake",
     additionalConfigureFlags |-> additionalConfigureFlags]

CombinedStep(steps) == [type |-> "CombinedStep", steps |-> steps]

SwitchOnPlatform(unix, windows) ==
    [type |-> "SwitchOnPlatform", unix |-> unix, windows |-> windows]

CopyInclude(relativeIncludePath) ==
    [type |-> "CopyInclude", relativeIncludePath |-> relativeIncludePath]

MSBuild(relativeProjectPath) ==
    [type |-> "MSBuild", relativeProjectPath |-> relativeProjectPath]

\* ",".join(strs)
RECURSIVE Join(_)
Join(strs) ==
    IF strs = <<>> THEN ""
    ELSE IF Len(strs) = 1 THEN strs[1]
    ELSE strs[1] \o "," \o Join(Tail(strs))

\* repr of a str without quotes or backslashes.
Repr(str) == "'" \o str \o "'"

\* Git.getKey, TarBall.getKey
SourceGetKey(source) ==
    IF source.type = "Git"
    THEN "Git(" \o Repr(source.repository) \o "," \o source.commit \o ")"
    ELSE "TarBall(" \o source.url \o "," \o source.sha256 \o ")"

\* Mutant of ConfigureAndMakeGetKey: the flags are left out of the key.
ConfigureAndMakeGetKeyNoFlags(step) == "ConfigureAndMake()"

\* ConfigureAndMake.getKey
ConfigureAndMakeGetKey(step) ==
    "ConfigureAndMake(" \o Join(step.additionalConfigureFlags) \o ")"

\* BuildStep.getKey of each variant; the composite variants join the keys of
\* their children.
RECURSIVE StepGetKey(_)
StepGetKey(step) ==
    CASE step.type = "ConfigureAndMake" -> ConfigureAndMakeGetKey(step)
      [] step.type = "CombinedStep" ->
            "CombinedStep("
                \o Join([i \in DOMAIN step.steps |-> StepGetKey(step.steps[i])])
                \o ")"
      [] step.type = "SwitchOnPlatform" ->
            "SwitchOnPlatform(" \o StepGetKey(step.unix) \o ","
                \o StepGetKey(step.windows) \o ")"
      [] step.type = "CopyInclude" ->
            "CopyInclude(" \o step.relativeIncludePath \o ")"
      [] step.type = "MSBuild" ->
            "MSBuild(" \o step.relativeProjectPath \o ")"

\* Package.getKey
PackageGetKey(source, buildStep) ==
    SourceGetKey(source) \o "," \o StepGetKey(buildStep)

\* Package.__init__ with the descriptors kept beside their fingerprint.
DescribedPackage(name, source, buildStep, dependencies) ==
    [name |-> name, key |-> PackageGetKey(source, buildStep),
     dependencies |-> dependencies, source |-> source, buildStep |-> buildStep]

\* Longest additionalConfigureFlags list of the descriptors explored.
MaxFlags == 2

\* Configure flags: the empty string, a plain flag, a flag that is the
\* separator of the join.
Flags == {"", "--a", ","}

FlagLists == SeqsUpTo(Flags, MaxFlags)

\* The build steps explored: ConfigureAndMake alone and nested in the
\* composite variants the way minibrewpkgs nests it.
BuildSteps ==
    UNION {{ConfigureAndMake(fl),
            CombinedStep(<<ConfigureAndMake(fl)>>),
            CombinedStep(<<CopyInclude("include"), ConfigureAndMake(fl)>>),
            SwitchOnPlatform(ConfigureAndMake(fl),
                             CombinedStep(<<MSBuild("VisualC"),
                                            CopyInclude("include")>>)),
            SwitchOnPlatform(MSBuild("VisualC"),
                             CombinedStep(<<ConfigureAndMake(fl),
                                            MSBuild("VisualC")>>))} :
           fl \in FlagLists}

Sources == {Git("r", "c1"), TarBall("u", "")}

\* One call pkg(name=name, source=source, buildStep=buildStep) of a name not
\* yet declared, without deps; the i-th declared package is named AllNames[i].
PkgDescribed(name, source, buildStep) ==
    /\ pc = "import"
    /\ name \notin DOMAIN packageMap
    /\ name = AllNames[Len(nodes) + 1]
    /\ nodes' = Append(nodes, DescribedPackage(name, source, buildStep, <<>>))
    /\ packageMap' = (name :> (Len(nodes) + 1)) @@ packageMap
    /\ UNCHANGED <<regErrors, installJson, disk, pc, runVars, runs, prev,
                   rebuiltSince, fileVars>>

NextKey ==
    \E name \in RegNames, source \in Sources, buildStep \in BuildSteps :
        PkgDescribed(name, source, buildStep)

SpecKey == InitReg /\ [][NextKey]_vars

\* ------------------------------------------------- Source.get, by step
\* Values of repoDir: "absent"; "previous", what an earlier fetch left there;
\* "partial", some of a tree; "cloned", a whole clone with the default branch
\* checked out; "complete", a whole checkout of the requested source.
\* Values of tmpDir: "absent"; "stale", left by an earlier call; "empty";
\* "one" and "other", an extracted archive with one top level entry or not;
\* "partial".

\* The Source of the package whose _get is running.
GetSource == nodes[needToInstall[idx]].source

\* The call is at step s of the get of a Source of the given type.
GetAt(type, s) ==
    /\ pc = "get"
    /\ GetSource.type = type
    /\ getStep = s

\* The step ends: the call goes on at step s, or raises.
GetGoes(s) == getStep' = s

GetStepRaises == getStep' = "raised"

FetchFrame ==
    UNCHANGED <<graphVars, installJson, disk, pc, runVars, runs, prev,
                rebuiltSince>>

\* What shutil.rmtree(path) leaves when it raises: it removes entry after
\* entry and raises at the first it cannot remove.
RmtreeRaised(dir) == {dir, "partial"}

\* Git.get line 63, and TarBall.get line 84: the call begins.
GetBegins ==
    /\ pc = "get"
    /\ getStep = "start"
    /\ GetGoes("rmRepo")
    /\ UNCHANGED <<repoDir, tmpDir>>
    /\ FetchFrame

\* Lines 64-65 and 85-86: if os.path.exists(repoPath): shutil.rmtree(repoPath)
GetRmRepo ==
    /\ pc = "get"
    /\ getStep = "rmRepo"
    /\ IF repoDir = "absent"
       THEN /\ repoDir' = repoDir
            /\ GetGoes(IF GetSource.type = "Git" THEN "clone" ELSE "rmTmp")
       ELSE \E ok \in BOOLEAN :
               IF ok
               THEN /\ repoDir' = "absent"
                    /\ GetGoes(IF GetSource.type = "Git" THEN "clone"
                               ELSE "rmTmp")
               ELSE /\ repoDir' \in RmtreeRaised(repoDir)
                    /\ GetStepRaises
    /\ UNCHANGED tmpDir
    /\ FetchFrame

\* Line 66: git clone; a clone that fails removes the directory it created.
GitClone ==
    /\ GetAt("Git", "clone")
    /\ \E ok \in BOOLEAN :
          IF ok THEN repoDir' = "cloned" /\ GetGoes("checkout")
          ELSE repoDir' = "absent" /\ GetStepRaises
    /\ UNCHANGED tmpDir
    /\ FetchFrame

\* Line 67: git checkout self.commit in the clone; it fails when the commit
\* is not in the repository, and leaves the clone as it is.
GitCheckout ==
    /\ GetAt("Git", "checkout")
    /\ \E ok \in BOOLEAN :
          IF ok THEN repoDir' = "complete" /\ GetGoes("returned")
          ELSE repoDir' = "cloned" /\ GetStepRaises
    /\ UNCHANGED tmpDir
    /\ FetchFrame

\* Lines 87-89: remove repoPath.tmp if it exists, then os.makedirs it.
TarMakeTmp ==
    /\ GetAt("TarBall", "rmTmp")
    /\ IF tmpDir = "absent"
       THEN tmpDir' = "empty" /\ GetGoes("download")
       ELSE \E ok \in BOOLEAN :
               IF ok THEN tmpDir' = "empty" /\ GetGoes("download")
               ELSE tmpDir' \in RmtreeRaised(tmpDir) /\ GetStepRaises
    /\ UNCHANGED repoDir
    /\ FetchFrame

\* Lines 91-104: the archive is downloaded to repoPath.tar.gz and, when
\* sha256 is given, its digest compared; urlopen or the comparison may fail.
TarDownload ==
    /\ GetAt("TarBall", "download")
    /\ \E ok \in BOOLEAN, digestOk \in BOOLEAN :
          IF ok /\ (GetSource.sha256 = "" \/ digestOk)
          THEN GetGoes("extract")
          ELSE GetStepRaises
    /\ UNCHANGED <<repoDir, tmpDir>>
    /\ FetchFrame

\* Lines 107-114: extractall into repoPath.tmp, then the test for exactly one
\* top level entry.
TarExtract ==
    /\ GetAt("TarBall", "extract")
    /\ \E left \in {"one", "other", "partial"} :
          /\ tmpDir' = left
          /\ IF left = "one" THEN GetGoes("move") ELSE GetStepRaises
    /\ UNCHANGED repoDir
    /\ FetchFrame

\* Lines 115-117: shutil.move of the entry to repoPath (a rename inside
\* REPOS_PATH), then shutil.rmtree of repoPath.tmp.
TarMove ==
    /\ GetAt("TarBall", "move")
    /\ \E moved \in BOOLEAN, removed \in BOOLEAN :
          IF ~moved
          THEN UNCHANGED <<repoDir, tmpDir>> /\ GetStepRaises
          ELSE /\ repoDir' = "complete"
               /\ IF removed THEN tmpDir' = "absent" /\ GetGoes("returned")
                  ELSE tmpDir' \in RmtreeRaised("empty") /\ GetStepRaises
    /\ FetchFrame

\* source.get has returned: _get returns to install.
FetchReturns ==
    /\ getStep = "returned"
    /\ GetReturns

\* source.get has raised: the exception leaves _get and install.
FetchRaises ==
    /\ getStep = "raised"
    /\ GetRaises

\* install of a package with no ledger entry has reached its _get: the
\* directories are absent or were left by an earlier call.
InitFetch ==
    \E source \in {Git("r", "c1"), TarBall("u", ""), TarBall("u", "d")} :
        /\ nodes = <<DescribedPackage("a", source, ConfigureAndMake(<<>>), <<>>)>>
        /\ packageMap = [n \in {"a"} |-> 1]
        /\ regErrors = 0
        /\ installJson = <<>>
        /\ disk = DiskAbsent
        /\ pc = "get"
        /\ target = 1
        /\ needToInstall = <<1>>
        /\ alreadyInstalled = <<>>
        /\ visits = <<1>>
        /\ idx = 1
        /\ fetched = <<1>>
        /\ built = <<>>
        /\ finished = <<>>
        /\ completed = <<>>
        /\ failedPkg = 0
        /\ ledger0 = <<>>
        /\ runs = 1
        /\ prev = NoRun
        /\ rebuiltSince = <<{}>>
        /\ repoDir \in {"absent", "previous"}
        /\ tmpDir \in {"absent", "stale"}
        /\ getStep = "start"

NextFetch ==
    \/ GetBegins
    \/ GetRmRepo
    \/ GitClone
    \/ GitCheckout
    \/ TarMakeTmp
    \/ TarDownload
    \/ TarExtract
    \/ TarMove
    \/ FetchReturns
    \/ FetchRaises

SpecFetch == InitFetch /\ [][NextFetch]_vars

\* ------------------------------------------------------------- claims
Deps(p) == Range(nodes[p].dependencies)

NeedsInstall(p) == p \in Range(needToInstall)

AlreadyInstalled(p) == p \in Range(alreadyInstalled)

\* The ledger the walk of this run read matches p's fingerprint.
InstalledAtWalk(p) == LedgerGet(ledger0, nodes[p].name) = nodes[p].key

\* C depends on B, B depends on A.
Chain(a, b, c) == a \in Deps(b) /\ b \in Deps(c)

\* C1: after a walk, a reachable package is in needToInstall exactly when its
\* fingerprint differs from its ledger entry (or it has none) or one of its
\* direct dependencies is in needToInstall, and is in alreadyInstalled
\* otherwise; in a chain whose bottom changed all three need installing; a
\* package without dependencies is skipped exactly when its entry matches.
C1_Classification ==
    target # 0 =>
        /\ \A p \in Reachable(target) :
              /\ NeedsInstall(p) <=>
                    (~InstalledAtWalk(p) \/ \E d \in Deps(p) : NeedsInstall(d))
              /\ AlreadyInstalled(p) <=> ~NeedsInstall(p)
              /\ Deps(p) = {} => (AlreadyInstalled(p) <=> InstalledAtWalk(p))
        /\ \A b \in Deps(target) : \A a \in Deps(b) :
              ~InstalledAtWalk(a)
                  => (NeedsInstall(a) /\ NeedsInstall(b) /\ NeedsInstall(target))

\* A chain walked from its top where only the bottom's fingerprint changed.
C1_Witness ==
    \E a, b, c \in DOMAIN nodes :
        /\ Chain(a, b, c) /\ target = c
        /\ ~InstalledAtWalk(a) /\ InstalledAtWalk(b) /\ InstalledAtWalk(c)
        /\ NeedsInstall(a) /\ NeedsInstall(b) /\ NeedsInstall(c)

\* D depends on B and C, both depend on A alone, A on nothing.
Diamond(a, b, c, d) ==
    /\ b # c
    /\ Deps(d) = {b, c}
    /\ Deps(b) = {a}
    /\ Deps(c) = {a}
    /\ Deps(a) = {}

\* C7: after a walk the two lists together hold exactly the packages
\* reachable from the target, each once and in one list only, the walk body
\* having run once per package; in a diamond whose four packages need
\* installing the shared bottom is first in the build order.
C7_Partition ==
    target # 0 =>
        /\ Range(needToInstall) \cup Range(alreadyInstalled) = Reachable(target)
        /\ Range(needToInstall) \cap Range(alreadyInstalled) = {}
        /\ NoDup(needToInstall)
        /\ NoDup(alreadyInstalled)
        /\ NoDup(visits)
        /\ Range(visits) = Reachable(target)
        /\ \A b, c \in Deps(target) : \A a \in Deps(b) :
              (Diamond(a, b, c, target)
                 /\ {a, b, c, target} \subseteq Range(needToInstall))
                  => needToInstall[1] = a

\* A diamond walked from its top, all four packages needing installation.
C7_Witness ==
    \E a, b, c, d \in DOMAIN nodes :
        /\ Diamond(a, b, c, d) /\ target = d
        /\ {a, b, c, d} \subseteq Range(needToInstall)
        /\ Len(needToInstall) = 4

\* C6: in the build order every dependency that needs installing precedes
\* its dependents, and when a package's fetch starts each of its
\* dependencies that needs installing has been fetched, built and recorded
\* in the ledger, in memory and on disk.
C6_BuildOrder ==
    /\ \A i \in DOMAIN needToInstall :
          \A d \in Deps(needToInstall[i]) :
              NeedsInstall(d) =>
                  /\ IndexOf(needToInstall, d) # 0
                  /\ IndexOf(needToInstall, d) < i
    /\ pc = "get" =>
          \A d \in Deps(needToInstall[idx]) :
              NeedsInstall(d) =>
                  /\ d \in Range(finished)
                  /\ d \in Range(completed)
                  /\ LedgerGet(installJson, nodes[d].name) = nodes[d].key
                  /\ LedgerGet(LoadInstallJson(disk), nodes[d].name) = nodes[d].key

\* The fetch of a package starts after a dependency of it was installed in
\* this run.
C6_Witness ==
    /\ pc = "get"
    /\ idx > 1
    /\ \E d \in Deps(needToInstall[idx]) :
          NeedsInstall(d) /\ d \in Range(completed)

Name(p) == nodes[p].name

Key(p) == nodes[p].key

\* The entry under name n is the same in the ledgers x and y.
SameEntry(x, y, n) ==
    /\ (n \in DOMAIN x) <=> (n \in DOMAIN y)
    /\ LedgerGet(x, n) = LedgerGet(y, n)

\* C2: when the fetch or the build of P has failed the run has stopped:
\* exactly the packages up to P were fetched, no later one was fetched or
\* built, the entries of P and of the later packages are, in memory and on
\* disk, what they were before the run, and the entries of the packages
\* before P hold their fingerprints.
C2_FailFast ==
    failedPkg # 0 =>
        /\ pc = "failed"
        /\ needToInstall[idx] = failedPkg
        /\ fetched = SubSeq(needToInstall, 1, idx)
        /\ Range(built) \subseteq Range(fetched)
        /\ completed = SubSeq(needToInstall, 1, idx - 1)
        /\ ~LoadRaises(disk)
        /\ \A j \in idx..Len(needToInstall) :
              /\ SameEntry(installJson, ledger0, Name(needToInstall[j]))
              /\ SameEntry(LoadInstallJson(disk), ledger0, Name(needToInstall[j]))
        /\ \A j \in 1..(idx - 1) :
              /\ LedgerGet(installJson, Name(needToInstall[j])) = Key(needToInstall[j])
              /\ LedgerGet(LoadInstallJson(disk), Name(needToInstall[j]))
                    = Key(needToInstall[j])

\* The build of the second of three packages failed after the first one was
\* installed.
C2_Witness ==
    /\ failedPkg # 0
    /\ idx = 2
    /\ Len(needToInstall) = 3
    /\ failedPkg \in Range(built)
    /\ ~SameEntry(installJson, ledger0, Name(needToInstall[1]))

\* C3: when install(X) ended successfully and the next process runs
\* install(X) again, its walk puts every package reachable from X in
\* alreadyInstalled and nothing is fetched or built.
C3_Idempotent ==
    (prev.outcome = "done" /\ ~prev.edited /\ target # 0
        /\ target = prev.target) =>
        /\ needToInstall = <<>>
        /\ Range(alreadyInstalled) = Reachable(target)
        /\ fetched = <<>>
        /\ built = <<>>
        /\ pc = "done"

\* The second install(X) ended after a first one that installed two packages
\* or more.
C3_Witness ==
    /\ prev.outcome = "done"
    /\ Len(prev.completed) >= 2
    /\ target = prev.target
    /\ pc = "done"

\* C8: the ledger is saved after every entry written: outside the two steps
\* between the write of an entry and the end of its save the file holds the
\* ledger in memory, so it does whenever a fetch begins and when the run ends
\* or aborts, with the fingerprint of every package that finished earlier;
\* at most one finished package is ever missing from the file.
C8_SavedPerPackage ==
    /\ pc \in {"main", "get", "build", "set", "done", "failed", "error"} =>
          /\ ~LoadRaises(disk)
          /\ LoadInstallJson(disk) = installJson
          /\ \A p \in Range(completed) :
                LedgerGet(LoadInstallJson(disk), Name(p)) = Key(p)
    /\ pc \in {"main", "get", "build", "done", "failed", "error"} =>
          finished = completed
    /\ Cardinality(Range(finished) \ Range(completed)) <= 1

\* The fetch of the second package begins: the file already holds the first.
C8_Witness ==
    /\ pc = "get"
    /\ idx = 2
    /\ ~SameEntry(LoadInstallJson(disk), ledger0, Name(needToInstall[1]))
    /\ LedgerGet(LoadInstallJson(disk), Name(needToInstall[1])) = Key(needToInstall[1])

\* C4: the rerun of an install that was aborted by the failure of P has P
\* in its build order and every package that completed before the failure
\* in alreadyInstalled.
C4_RerunRetriesFailed ==
    (prev.outcome = "failed" /\ ~prev.edited /\ target # 0
        /\ target = prev.target) =>
        /\ prev.failedPkg \in Range(needToInstall)
        /\ \A q \in Range(prev.completed) : AlreadyInstalled(q)

\* C5: a package the walk skips has no direct or transitive dependency that
\* was built since the package itself was last built.
C5_SkippedIsFresh ==
    target # 0 =>
        \A p \in Range(alreadyInstalled) :
            TransDeps(p) \cap rebuiltSince[p] = {}

\* C9: after an interruption the file is readable, and every entry it holds
\* is either the entry from before the run or the fingerprint of a package
\* that finished in the run; the next process start does not fail to load it.
C9_CrashSafe ==
    /\ pc = "crashed" =>
          /\ ~LoadRaises(disk)
          /\ \A n \in DOMAIN LoadInstallJson(disk) \cup DOMAIN ledger0 :
                \/ SameEntry(LoadInstallJson(disk), ledger0, n)
                \/ \E p \in Range(finished) :
                      Name(p) = n /\ LedgerGet(LoadInstallJson(disk), n) = Key(p)
    /\ prev.outcome = "crashed" => pc # "loaderror"

\* C10: a pkg call that raises NameError leaves the Package objects and
\* packageMap as they were.
C10_FailedPkgChangesNothing ==
    [][regErrors' # regErrors => (nodes' = nodes /\ packageMap' = packageMap)]_vars

\* A pkg call has raised after another one had registered a package.
C10_Witness ==
    /\ regErrors > 0
    /\ Len(nodes) > 0

\* C11: the step that ends main with the error of an unregistered target
\* name has run no walk (no target, empty lists), has invoked no fetch and
\* no build, and leaves the ledger in memory and the file as they were; a
\* step that leaves main without an error has resolved a registered name.
C11_UnknownNameFailsFirst ==
    [][/\ (pc # "error" /\ pc' = "error") =>
              /\ pc = "main"
              /\ target' = 0
              /\ visits' = <<>>
              /\ needToInstall' = <<>> /\ alreadyInstalled' = <<>>
              /\ fetched' = <<>> /\ built' = <<>> /\ finished' = <<>>
              /\ installJson' = installJson
              /\ installJson' = ledger0'
              /\ disk' = disk
              /\ nodes' = nodes /\ packageMap' = packageMap
       /\ (pc = "main" /\ pc' \notin {"main", "error"}) =>
              /\ target' \in DOMAIN nodes
              /\ Name(target') \in DOMAIN packageMap
              /\ packageMap[Name(target')] = target']_vars

\* main has ended with the error on a graph of two packages or more, the
\* checkout having no install.json.
C11_Witness ==
    /\ pc = "error"
    /\ Len(nodes) >= 2
    /\ disk = DiskAbsent

\* The flag lists f and g are equally long and differ at one position only.
OneFlagDiffers(f, g) ==
    /\ Len(f) = Len(g)
    /\ Cardinality({i \in DOMAIN f : f[i] # g[i]}) = 1

\* The build steps s and t are the same but for one configure flag of one
\* ConfigureAndMake step, at any depth.
RECURSIVE DiffersInOneFlag(_, _)
DiffersInOneFlag(s, t) ==
    /\ s.type = t.type
    /\ CASE s.type = "ConfigureAndMake" ->
              OneFlagDiffers(s.additionalConfigureFlags,
                             t.additionalConfigureFlags)
         [] s.type = "CombinedStep" ->
              /\ Len(s.steps) = Len(t.steps)
              /\ \E i \in DOMAIN s.steps :
                    /\ DiffersInOneFlag(s.steps[i], t.steps[i])
                    /\ \A j \in DOMAIN s.steps \ {i} : s.steps[j] = t.steps[j]
         [] s.type = "SwitchOnPlatform" ->
              \/ DiffersInOneFlag(s.unix, t.unix) /\ s.windows = t.windows
              \/ s.unix = t.unix /\ DiffersInOneFlag(s.windows, t.windows)
         [] OTHER -> FALSE

PkgState(p) ==
    IF p \notin Range(needToInstall) THEN "none"
    ELSE IF failedPkg = p THEN "Failed"
    ELSE IF p \in Range(completed) THEN "Installed"
    ELSE IF p \in Range(built) THEN "Building"
    ELSE IF p \in Range(fetched) THEN "Fetching"
    ELSE "Pending"

\* The walk puts a package in the build order as Pending; the loop starts
\* with the fetch of the first one at once.
Transitions ==
    {<<"none", "Pending">>, <<"none", "Fetching">>,
     <<"Pending", "Fetching">>, <<"Fetching", "Building">>,
     <<"Building", "Installed">>, <<"Fetching", "Failed">>,
     <<"Building", "Failed">>}

PkgStateNext(p) ==
    IF p \notin Range(needToInstall') THEN "none"
    ELSE IF failedPkg' = p THEN "Failed"
    ELSE IF p \in Range(completed') THEN "Installed"
    ELSE IF p \in Range(built') THEN "Building"
    ELSE IF p \in Range(fetched') THEN "Fetching"
    ELSE "Pending"

\* C13: within one run a package of the build order moves only along
\* Pending -> Fetching -> Building -> Installed, or from Fetching or Building
\* to Failed (only the first of the build order leaves the walk already
\* Fetching); once a package is Failed no package changes state; at most one
\* package is Fetching or Building; a package of the skip list is never
\* fetched and never built.
C13_StateMachine ==
    [][runs' = runs =>
          /\ \A p \in DOMAIN nodes :
                /\ \/ PkgStateNext(p) = PkgState(p)
                   \/ <<PkgState(p), PkgStateNext(p)>> \in Transitions
                /\ (PkgState(p) = "none" /\ PkgStateNext(p) = "Fetching")
                      => (pc = "main" /\ needToInstall'[1] = p)
                /\ failedPkg # 0 => PkgStateNext(p) = PkgState(p)
          /\ Cardinality({p \in DOMAIN nodes :
                            PkgStateNext(p) \in {"Fetching", "Building"}}) <= 1
          /\ \A p \in Range(alreadyInstalled') :
                /\ PkgStateNext(p) = "none"
                /\ p \notin Range(fetched') \cup Range(built')
                                             \cup Range(finished')]_vars

\* A run whose first package is Installed, whose second is Failed after its
\* build began, whose third is still Pending, a fourth one being skipped.
C13_Witness ==
    /\ Len(needToInstall) = 3
    /\ Len(alreadyInstalled) = 1
    /\ PkgState(needToInstall[1]) = "Installed"
    /\ PkgState(needToInstall[2]) = "Failed"
    /\ needToInstall[2] \in Range(built)
    /\ PkgState(needToInstall[3]) = "Pending"

\* C14: after any sequence of pkg calls, returning or raising, repeated names
\* included, no Package object reaches itself through dependency edges.
C14_Acyclic ==
    \A p \in DOMAIN nodes : p \notin TransDeps(p)

\* A name was registered twice, the second Package depending on the first,
\* and another pkg call has raised.
C14_Witness ==
    /\ regErrors > 0
    /\ \E p, q \in DOMAIN nodes :
          /\ p # q
          /\ Name(p) = Name(q)
          /\ p \in Deps(q)

\* The Package objects in packageMap or reachable from it.
InGraph == ReachFrom({packageMap[n] : n \in DOMAIN packageMap}, {})

\* C15: no two distinct Package objects in packageMap or reachable from it
\* have the same name, and every Package object ever created is still the
\* one packageMap holds under its name.
C15_NamesUnique ==
    /\ \A p, q \in InGraph : p # q => Name(p) # Name(q)
    /\ \A p \in DOMAIN nodes : packageMap[Name(p)] = p

\* C16: the dependencies list of every Package object created by pkg holds
\* no Package twice, does not hold the Package itself and holds no Package
\* registered under the Package's own name.
C16_DepsWellFormed ==
    \A p \in DOMAIN nodes :
        /\ NoDup(nodes[p].dependencies)
        /\ p \notin Deps(p)
        /\ \A d \in Deps(p) : Name(d) # Name(p)

\* C17: on every graph, cyclic ones included, the walk returns (no call is
\* nested deeper than the number of Packages, so the recursion limit is
\* never hit) with its body having run exactly once for each Package
\* reachable from the target, each being in one of the two lists once.
C17_WalkTerminates ==
    /\ pc # "recursionerror"
    /\ target # 0 =>
          /\ NoDup(visits)
          /\ Range(visits) = Reachable(target)
          /\ Len(visits) <= Len(nodes)
          /\ NoDup(needToInstall \o alreadyInstalled)
          /\ Range(needToInstall \o alreadyInstalled) = Reachable(target)

\* A walk has returned on a graph where the target and another Package
\* depend on each other.
C17_Witness ==
    /\ target # 0
    /\ pc \in {"get", "done"}
    /\ \E q \in DOMAIN nodes :
          q # target /\ q \in Deps(target) /\ target \in Deps(q)
    /\ Len(visits) = 2

\* C18: when Source.get has raised, repoPath is absent, is what it was before
\* the call, or holds a complete checkout of the requested source.
C18_FailedFetchLeavesNoPartial ==
    getStep = "raised" =>
        repoDir \in {"absent", "previous", "complete"}

\* C19: when install has returned without a failure, the ledger entry of
\* every package reachable from the target equals the package's fingerprint,
\* in memory and in the file.
C19_InstalledAfterSuccess ==
    (pc = "done" /\ target # 0) =>
        /\ ~LoadRaises(disk)
        /\ \A p \in Reachable(target) :
              /\ LedgerGet(installJson, Name(p)) = Key(p)
              /\ LedgerGet(LoadInstallJson(disk), Name(p)) = Key(p)

\* An install that skipped one package and installed two has returned, a
\* stale entry having been replaced.
C19_Witness ==
    /\ pc = "done"
    /\ Len(alreadyInstalled) = 1
    /\ Len(needToInstall) = 2
    /\ \E p \in Range(needToInstall) :
          Name(p) \in DOMAIN ledger0 /\ ledger0[Name(p)] # Key(p)

\* The ledger lj differs from the ledger at the start of the run only in
\* entries of packages whose fetch and build have both returned, which hold
\* their fingerprints, and has every key the ledger had.
OnlyFinishedChanged(lj, done) ==
    /\ DOMAIN ledger0 \subseteq DOMAIN lj
    /\ \A n \in DOMAIN lj :
          SameEntry(lj, ledger0, n)
              \/ \E p \in Range(done) : Name(p) = n /\ lj[n] = Key(p)

\* C20: in every step of a run the ledger in memory and the readable file
\* differ from the ledger at the start only in entries of packages whose
\* fetch and build both returned in this run, so the entries of skipped,
\* unreachable, failed and not yet attempted packages are as before and no
\* key is removed; a step changes at most the entry of the package that
\* just finished; the step that holds the walk changes neither ledger, file
\* nor graph, and no step of the run changes the graph.
C20_Frame ==
    [][runs' = runs =>
          /\ OnlyFinishedChanged(installJson, finished)'
          /\ ~LoadRaises(disk') =>
                OnlyFinishedChanged(LoadInstallJson(disk), finished)'
          /\ \A p \in DOMAIN nodes :
                (p \notin Range(finished')
                    \/ p \in Range(alreadyInstalled') \/ p = failedPkg')
                  => SameEntry(installJson', ledger0', Name(p))
          /\ \A n \in DOMAIN installJson' :
                ~SameEntry(installJson', installJson, n)
                    => /\ pc = "set"
                       /\ n = Name(needToInstall[idx])
                       /\ needToInstall[idx] \in Range(finished)
          /\ pc = "main" => (installJson' = installJson /\ disk' = disk)
          /\ nodes' = nodes /\ packageMap' = packageMap]_vars

\* A run on a ledger with three entries has failed at its second package
\* after it installed the first; the third package is not reachable from the
\* target.
C20_Witness ==
    /\ pc = "failed"
    /\ Len(completed) = 1
    /\ Cardinality(DOMAIN ledger0) = 3
    /\ ~SameEntry(installJson, ledger0, Name(completed[1]))
    /\ \E p \in DOMAIN nodes : p \notin Reachable(target)

====
